---- MODULE Spec2Model ----
(***************************************************************************)
(* Shape-level model of smallSE-ResNet/model/ResNet_cifar.py: the graph    *)
(* builder build(), the residual block variants, _shortcut and             *)
(* squeeze_excite_block.  A tensor is modelled by its static shape, the    *)
(* tuple K.int_shape returns: <<None, d1, d2, d3>> with None written 0.    *)
(* Python axis k of a shape is element k + 1 of the tuple.                 *)
(* Arithmetic follows Python 3: `/` is true division and round() rounds    *)
(* halves to the even neighbour.  Merge layers (add, multiply) broadcast   *)
(* as keras' _Merge layer does: two dimensions match when they are equal   *)
(* or one of them is 1.                                                    *)
(***************************************************************************)
EXTENDS Integers, Sequences, FiniteSets, TLC

\* ------------------------------------------------------------------ bounds
\* Largest number of rows / cols of an input image handed to build.
MaxDim == 3
\* Longest list of stage repetition counts handed to build.
MaxStages == 2
\* Largest repetition count of one stage.
MaxReps == 2

VARIABLES
    ROW_AXIS,       \* module global, 0 while not yet assigned
    COL_AXIS,       \* module global, 0 while not yet assigned
    CHANNEL_AXIS,   \* module global, 0 while not yet assigned
    ordering,       \* K.image_dim_ordering() during the current call
    pc,             \* position of the current call
    caller,         \* which entry point was called
    args,           \* the arguments build was called with
    input_shape,    \* build's local input_shape (after the permutation)
    block_fn,       \* build's local block_fn (after _get_block)
    block,          \* build's local block: shape of the current tensor
    filters,        \* build's local filters
    stage,          \* build's loop index i, 1-based position in repetitions
    rep,            \* _residual_block's loop index i
    stageIn,        \* the tensor handed to the current _residual_block closure
    layers,         \* layers created by build itself (stem and classifier)
    blocks,         \* one record per invocation of a block function
    stages,         \* one record per completed _residual_block closure
    error,          \* the exception that ended the call, "" when none
    model,          \* the returned Model: <<>> or <<[inputs, outputs]>>
    shortcutCall    \* a direct invocation of _shortcut: <<>> or <<record>>

vars == <<ROW_AXIS, COL_AXIS, CHANNEL_AXIS, ordering, pc, caller, args,
          input_shape, block_fn, block, filters, stage, rep, stageIn, layers,
          blocks, stages, error, model, shortcutCall>>

axes == <<ROW_AXIS, COL_AXIS, CHANNEL_AXIS>>

locals == <<caller, args, input_shape, block_fn, block, filters, stage, rep,
            stageIn, layers, blocks, stages, error, model>>

\* ------------------------------------------------------------ framework
\* shape[axis] for a Python axis (negative axes count from the end).
Dim(shape, axis) == IF axis < 0 THEN shape[Len(shape) + 1 + axis] ELSE shape[axis + 1]

\* K.image_data_format() for the dimension ordering ord.
image_data_format(ord) == IF ord = "tf" THEN "channels_last" ELSE "channels_first"

\* keras conv_utils.conv_output_length; -1 when the layer cannot be built.
conv_output_length(n, k, padding, stride) ==
    IF stride < 1 THEN -1
    ELSE IF padding = "same" THEN (n + stride - 1) \div stride
    ELSE IF n < k THEN -1
    ELSE (n - k + stride) \div stride

\* Output shape of Conv2D(...)(input); <<>> when the layer raises.
Conv2D(input, nfilters, kernel_size, strides, padding, fmt) ==
    LET r == IF fmt = "channels_last" THEN input[2] ELSE input[3]
        c == IF fmt = "channels_last" THEN input[3] ELSE input[4]
        ro == conv_output_length(r, kernel_size[1], padding, strides[1])
        co == conv_output_length(c, kernel_size[2], padding, strides[2])
    IN  IF input = <<>> \/ ro < 1 \/ co < 1 THEN <<>>
        ELSE IF fmt = "channels_last" THEN <<0, ro, co, nfilters>>
        ELSE <<0, nfilters, ro, co>>

\* Output shape of GlobalAveragePooling2D()(input).
GlobalAveragePooling2D(input, fmt) ==
    IF fmt = "channels_last" THEN <<0, input[4]>> ELSE <<0, input[2]>>

\* Output shape of Reshape(target)(input).
Reshape(input, target) == <<0>> \o target

\* Output shape of Dense(units)(input): the last axis becomes units.
Dense(input, units) == [input EXCEPT ![Len(input)] = units]

\* One dimension of a merge layer's output; -1 when the operands do not broadcast.
MergeDim(a, b) == IF a = b THEN a ELSE IF a = 1 THEN b ELSE IF b = 1 THEN a ELSE -1

\* Output shape of add([a, b]) / multiply([a, b]); <<>> when the layer raises.
Merge(a, b) ==
    IF a = <<>> \/ b = <<>> \/ Len(a) # Len(b) THEN <<>>
    ELSE IF \E k \in 2..Len(a) : MergeDim(a[k], b[k]) = -1 THEN <<>>
    ELSE [k \in 1..Len(a) |-> IF k = 1 THEN 0 ELSE MergeDim(a[k], b[k])]

\* Output shape of AveragePooling2D(pool_size, strides=(1, 1))(input).
AveragePooling2D(input, pool_size, fmt) ==
    LET r == IF fmt = "channels_last" THEN input[2] ELSE input[3]
        c == IF fmt = "channels_last" THEN input[3] ELSE input[4]
        ch == IF fmt = "channels_last" THEN input[4] ELSE input[2]
        ro == conv_output_length(r, pool_size[1], "valid", 1)
        co == conv_output_length(c, pool_size[2], "valid", 1)
    IN  IF ro < 1 \/ co < 1 THEN <<>>
        ELSE IF fmt = "channels_last" THEN <<0, ro, co, ch>>
        ELSE <<0, ch, ro, co>>

\* Output shape of Flatten()(input).
Flatten(input) == <<0, input[2] * input[3] * input[4]>>

\* int(round(a / b)) in Python 3; -1 stands for ZeroDivisionError.
RoundDiv(a, b) ==
    IF b = 0 THEN -1
    ELSE LET q == a \div b
             m == a % b
         IN  IF 2 * m < b THEN q
             ELSE IF 2 * m > b THEN q + 1
             ELSE IF q % 2 = 0 THEN q ELSE q + 1

\* ---------------------------------------------------------------- program
\* Default of squeeze_excite_block's ratio parameter.
DefaultRatio == 16
\* Filters of the stem convolution.
StemFilters == 64
\* Filters handed to the first stage.
FirstStageFilters == 64

\* The block functions of the module.
BlockVariants == {"basic_block", "small_basic_block", "bottleneck"}

\* Every name bound in the module's global namespace once build has run.
ModuleGlobals ==
    {"six", "regularizers", "Model", "Input", "Activation", "Dense", "Flatten",
     "GlobalAveragePooling2D", "Reshape", "multiply", "Conv2D", "MaxPooling2D",
     "AveragePooling2D", "add", "BatchNormalization", "l2", "K",
     "squeeze_excite_block", "_bn_relu", "_conv_bn_relu", "_bn_relu_conv",
     "_shortcut", "_residual_block", "basic_block", "small_basic_block",
     "bottleneck", "_handle_dim_ordering", "_get_block", "build", "resnet_18",
     "resnet_34", "resnet_50", "resnet_101", "resnet_152", "ROW_AXIS",
     "COL_AXIS", "CHANNEL_AXIS"}

\* squeeze_excite_block(input, ratio): every intermediate shape and the result.
squeeze_excite_block(input, ratio, fmt) ==
    LET channel_axis == IF fmt = "channels_first" THEN 1 ELSE -1
        nfilters == Dim(input, channel_axis)
        se_shape == IF fmt = "channels_last" THEN <<1, 1, nfilters>>
                    ELSE <<nfilters, 1, 1>>
        pooled == GlobalAveragePooling2D(input, fmt)
        reshaped == Reshape(pooled, se_shape)
        dense1 == Dense(reshaped, nfilters \div ratio)
        dense2 == Dense(dense1, nfilters)
    IN  [input |-> input, filters |-> nfilters, squeezed |-> reshaped,
         compressed |-> dense1, expanded |-> dense2,
         out |-> Merge(input, dense2)]

\* The layers squeeze_excite_block creates, in order.
SEOps == <<"GlobalAveragePooling2D", "Reshape", "Dense", "Dense", "Multiply">>

\* _bn_relu(input): BatchNormalization and Activation keep the shape.
_bn_relu(input) == input

BnReluOps == <<"BatchNormalization", "Activation">>

\* _conv_bn_relu(**conv_params)(input), padding "same".
_conv_bn_relu(input, nfilters, kernel_size, strides, fmt) ==
    _bn_relu(Conv2D(input, nfilters, kernel_size, strides, "same", fmt))

\* _bn_relu_conv(**conv_params)(input), padding "same".
_bn_relu_conv(input, nfilters, kernel_size, strides, fmt) ==
    Conv2D(_bn_relu(input), nfilters, kernel_size, strides, "same", fmt)

\* _shortcut deciding on the row stride and the channels only.
_shortcut_no_height(input, residual, row, col, channel, fmt) ==
    LET stride_width == RoundDiv(Dim(input, row), Dim(residual, row))
        stride_height == RoundDiv(Dim(input, col), Dim(residual, col))
        equal_channels == Dim(input, channel) = Dim(residual, channel)
        projection == stride_width > 1 \/ ~equal_channels
        sc == IF stride_width = -1 \/ stride_height = -1 THEN <<>>
              ELSE IF projection
                   THEN Conv2D(input, Dim(residual, channel), <<1, 1>>,
                               <<stride_width, stride_height>>, "valid", fmt)
                   ELSE input
    IN  [input |-> input, residual |-> residual,
         strides |-> <<stride_width, stride_height>>,
         projection |-> projection, shortcut |-> sc,
         out |-> Merge(sc, residual)]

\* _shortcut(input, residual) under the axis globals row, col, channel.
_shortcut(input, residual, row, col, channel, fmt) ==
    LET stride_width == RoundDiv(Dim(input, row), Dim(residual, row))
        stride_height == RoundDiv(Dim(input, col), Dim(residual, col))
        equal_channels == Dim(input, channel) = Dim(residual, channel)
        projection == stride_width > 1 \/ stride_height > 1 \/ ~equal_channels
        sc == IF stride_width = -1 \/ stride_height = -1 THEN <<>>
              ELSE IF projection
                   THEN Conv2D(input, Dim(residual, channel), <<1, 1>>,
                               <<stride_width, stride_height>>, "valid", fmt)
                   ELSE input
    IN  [input |-> input, residual |-> residual,
         strides |-> <<stride_width, stride_height>>,
         projection |-> projection, shortcut |-> sc,
         out |-> Merge(sc, residual)]

\* What the three block functions have in common: the leading convolution
\* (with or without bn->relu), the remaining convolutions, the optional
\* attention and the shortcut.  first_kernel / rest describe the variant.
BlockBody(input, nfilters, init_strides, is_se, is_first, first_kernel, rest, fmt) ==
    LET conv1 == IF is_first
                 THEN Conv2D(input, nfilters, first_kernel, init_strides, "same", fmt)
                 ELSE _bn_relu_conv(input, nfilters, first_kernel, init_strides, fmt)
        Chain[k \in 0..Len(rest)] ==
            IF k = 0 THEN conv1
            ELSE _bn_relu_conv(Chain[k - 1], rest[k].filters, rest[k].kernel, <<1, 1>>, fmt)
        residual == Chain[Len(rest)]
        se == IF is_se THEN <<squeeze_excite_block(residual, DefaultRatio, fmt)>> ELSE <<>>
        gated == IF is_se THEN se[1].out ELSE residual
        sc == IF gated = <<>> THEN <<>>
              ELSE <<_shortcut(input, gated, ROW_AXIS, COL_AXIS, CHANNEL_AXIS, fmt)>>
        RestOps[k \in 0..Len(rest)] ==
            IF k = 0 THEN <<>> ELSE RestOps[k - 1] \o BnReluOps \o <<"Conv2D">>
    IN  [ops |-> (IF is_first THEN <<>> ELSE BnReluOps) \o <<"Conv2D">>
                 \o RestOps[Len(rest)]
                 \o (IF is_se THEN SEOps ELSE <<>>)
                 \o (IF sc # <<>> /\ sc[1].projection THEN <<"Conv2D">> ELSE <<>>)
                 \o (IF sc # <<>> THEN <<"Add">> ELSE <<>>),
         conv1 |-> conv1, residual |-> residual, se |-> se, sc |-> sc,
         out |-> IF sc = <<>> THEN <<>> ELSE sc[1].out]

\* basic_block(filters, init_strides, is_se, is_first_block_of_first_layer)(input)
basic_block(input, nfilters, init_strides, is_se, is_first, fmt) ==
    BlockBody(input, nfilters, init_strides, is_se, is_first, <<3, 3>>,
              <<[filters |-> nfilters, kernel |-> <<3, 3>>]>>, fmt)

\* small_basic_block(filters, init_strides, is_se, is_first_block_of_first_layer)(input)
small_basic_block(input, nfilters, init_strides, is_se, is_first, fmt) ==
    BlockBody(input, nfilters, init_strides, is_se, is_first, <<1, 3>>,
              <<[filters |-> nfilters, kernel |-> <<3, 1>>],
                [filters |-> nfilters, kernel |-> <<1, 3>>],
                [filters |-> nfilters, kernel |-> <<3, 1>>]>>, fmt)

\* bottleneck expanding to filters * 2 instead of filters * 4.
bottleneck_x2(input, nfilters, init_strides, is_se, is_first, fmt) ==
    BlockBody(input, nfilters, init_strides, is_se, is_first, <<1, 1>>,
              <<[filters |-> nfilters, kernel |-> <<3, 3>>],
                [filters |-> nfilters * 2, kernel |-> <<1, 1>>]>>, fmt)

\* bottleneck(filters, init_strides, is_se, is_first_block_of_first_layer)(input)
bottleneck(input, nfilters, init_strides, is_se, is_first, fmt) ==
    BlockBody(input, nfilters, init_strides, is_se, is_first, <<1, 1>>,
              <<[filters |-> nfilters, kernel |-> <<3, 3>>],
                [filters |-> nfilters * 4, kernel |-> <<1, 1>>]>>, fmt)

\* block_function(filters=..., ...)(input) for a resolved block function.
ApplyBlock(name, input, nfilters, init_strides, is_se, is_first, fmt) ==
    IF name = "basic_block"
    THEN basic_block(input, nfilters, init_strides, is_se, is_first, fmt)
    ELSE IF name = "small_basic_block"
    THEN small_basic_block(input, nfilters, init_strides, is_se, is_first, fmt)
    ELSE bottleneck(input, nfilters, init_strides, is_se, is_first, fmt)

\* init_strides of iteration i of _residual_block's loop.
InitStrides(i, is_first_layer) == IF i = 0 /\ ~is_first_layer THEN <<2, 2>> ELSE <<1, 1>>

\* is_first_block_of_first_layer without the test of the loop index.
IsFirstBlockIgnoringIndex(i, is_first_layer) == is_first_layer

\* is_first_block_of_first_layer of iteration i of _residual_block's loop.
IsFirstBlockOfFirstLayer(i, is_first_layer) == is_first_layer /\ i = 0

\* is_first_layer as build passes it for the stage at 1-based position s.
IsFirstLayer(s) == s - 1 = 0

\* _handle_dim_ordering assigning the globals only while they are unset.
_handle_dim_ordering_once(ord, old) ==
    IF old # <<0, 0, 0>> THEN old
    ELSE IF ord = "tf" THEN <<1, 2, 3>> ELSE <<2, 3, 1>>

\* The globals _handle_dim_ordering assigns: <<ROW_AXIS, COL_AXIS, CHANNEL_AXIS>>.
_handle_dim_ordering(ord, old) == IF ord = "tf" THEN <<1, 2, 3>> ELSE <<2, 3, 1>>

\* The rank check rejecting only shapes that are too short.
RankErrorBelow(shape) == IF Len(shape) < 3 THEN "ShapeRank" ELSE ""

\* build's check of the rank of input_shape: the error raised, "" when none.
RankError(shape) == IF Len(shape) # 3 THEN "ShapeRank" ELSE ""

\* build's permutation of input_shape.
Permute(shape, ord) == IF ord = "tf" THEN <<shape[2], shape[3], shape[1]>> ELSE shape

\* _get_block(identifier): the resolved object, <<>> when ValueError is raised.
_get_block(identifier) ==
    IF identifier.kind = "str"
    THEN IF identifier.name \in ModuleGlobals
         THEN <<[kind |-> "ref", name |-> identifier.name]>>
         ELSE <<>>
    ELSE <<identifier>>

\* ----------------------------------------------------------------- inputs
Dims == 1..MaxDim

\* The input_shape arguments tried: 3-tuples (nb_channels, nb_rows, nb_cols)
\* and tuples of rank 2 and 4.
InputShapes ==
    {<<3, r, c>> : r \in Dims, c \in Dims}
    \cup {<<r, r>> : r \in Dims}
    \cup {<<3, 1, 1, 1>>}

\* The repetitions arguments tried: every list of at most MaxStages counts.
RepetitionLists == UNION {[1..n -> 0..MaxReps] : n \in 0..MaxStages}

\* The block_fn arguments tried: the variants by reference, and names.
BlockFnArgs ==
    {[kind |-> "ref", name |-> n] : n \in BlockVariants}
    \cup {[kind |-> "str", name |-> n] :
            n \in {"bottleneck", "resnet_18", "no_such_block"}}

NoArgs == [input_shape |-> <<>>, num_outputs |-> 0, block_fn |-> <<>>,
           repetitions |-> <<>>, is_se |-> FALSE]

\* ------------------------------------------------------------------ state
Init ==
    /\ ROW_AXIS = 0 /\ COL_AXIS = 0 /\ CHANNEL_AXIS = 0
    /\ ordering = "tf"
    /\ pc = "idle"
    /\ caller = ""
    /\ args = NoArgs
    /\ input_shape = <<>>
    /\ block_fn = <<>>
    /\ block = <<>>
    /\ filters = 0
    /\ stage = 0
    /\ rep = 0
    /\ stageIn = <<>>
    /\ layers = <<>>
    /\ blocks = <<>>
    /\ stages = <<>>
    /\ error = ""
    /\ model = <<>>
    /\ shortcutCall = <<>>

\* The state a call starts from: build's locals are fresh on every call.
Enter(who, a, ord) ==
    /\ pc' = "called"
    /\ caller' = who
    /\ args' = a
    /\ ordering' = ord
    /\ input_shape' = a.input_shape
    /\ block_fn' = <<>>
    /\ block' = <<>>
    /\ filters' = 0
    /\ stage' = 0
    /\ rep' = 0
    /\ stageIn' = <<>>
    /\ layers' = <<>>
    /\ blocks' = <<>>
    /\ stages' = <<>>
    /\ error' = ""
    /\ model' = <<>>
    /\ UNCHANGED <<ROW_AXIS, COL_AXIS, CHANNEL_AXIS, shortcutCall>>

\* A caller invokes build(input_shape, num_outputs, block_fn, repetitions, is_se)
\* under one of the framework's two dimension orderings.
CallBuild ==
    /\ pc = "idle"
    /\ \E shape \in InputShapes, n \in {10}, fn \in BlockFnArgs,
       reps \in RepetitionLists, se \in BOOLEAN, ord \in {"tf", "th"} :
        Enter("build", [input_shape |-> shape, num_outputs |-> n, block_fn |-> fn,
                        repetitions |-> reps, is_se |-> se], ord)

\* resnet_50(input_shape, num_outputs, is_se=...) on an ImageNet-sized input.
resnet_50 ==
    /\ pc = "idle"
    /\ \E se \in BOOLEAN, ord \in {"tf", "th"} :
        Enter("resnet_50",
              [input_shape |-> <<3, 224, 224>>, num_outputs |-> 1000,
               block_fn |-> [kind |-> "ref", name |-> "bottleneck"],
               repetitions |-> <<3, 4, 6, 3>>, is_se |-> se], ord)

\* build, line 234: _handle_dim_ordering().
HandleDimOrdering ==
    /\ pc = "called"
    /\ pc' = "rank"
    /\ ROW_AXIS' = _handle_dim_ordering(ordering, axes)[1]
    /\ COL_AXIS' = _handle_dim_ordering(ordering, axes)[2]
    /\ CHANNEL_AXIS' = _handle_dim_ordering(ordering, axes)[3]
    /\ UNCHANGED <<ordering, locals, shortcutCall>>

\* build, lines 235-240: the rank check, then the permutation.
CheckRank ==
    /\ pc = "rank"
    /\ IF RankError(input_shape) # ""
       THEN /\ pc' = "failed"
            /\ error' = RankError(input_shape)
            /\ UNCHANGED input_shape
       ELSE /\ pc' = "get_block"
            /\ input_shape' = Permute(input_shape, ordering)
            /\ UNCHANGED error
    /\ UNCHANGED <<ROW_AXIS, COL_AXIS, CHANNEL_AXIS, ordering, caller, args, block_fn,
                   block, filters, stage, rep, stageIn, layers, blocks, stages,
                   model, shortcutCall>>

\* build, line 243: block_fn = _get_block(block_fn).
GetBlock ==
    /\ pc = "get_block"
    /\ IF _get_block(args.block_fn) = <<>>
       THEN /\ pc' = "failed"
            /\ error' = "InvalidIdentifier"
            /\ UNCHANGED block_fn
       ELSE /\ pc' = "stem"
            /\ block_fn' = _get_block(args.block_fn)[1]
            /\ UNCHANGED error
    /\ UNCHANGED <<ROW_AXIS, COL_AXIS, CHANNEL_AXIS, ordering, caller, args,
                   input_shape, block, filters, stage, rep, stageIn, layers, blocks,
                   stages, model, shortcutCall>>

\* build, lines 245-250: the Input layer and the stem conv -> BN -> relu.
Stem ==
    /\ pc = "stem"
    /\ LET fmt == image_data_format(ordering)
           input == <<0>> \o input_shape
           conv == Conv2D(input, StemFilters, <<3, 3>>, <<1, 1>>, "same", fmt)
           conv1 == _conv_bn_relu(input, StemFilters, <<3, 3>>, <<1, 1>>, fmt)
       IN  /\ layers' = <<[op |-> "Input", out |-> input, param |-> input_shape],
                          [op |-> "Conv2D", out |-> conv, param |-> StemFilters],
                          [op |-> "BatchNormalization", out |-> conv1,
                           param |-> CHANNEL_AXIS],
                          [op |-> "Activation", out |-> conv1, param |-> "relu"]>>
           /\ block' = conv1
           /\ stageIn' = conv1
    /\ filters' = FirstStageFilters
    /\ stage' = 1
    /\ rep' = 0
    /\ pc' = "stages"
    /\ UNCHANGED <<ROW_AXIS, COL_AXIS, CHANNEL_AXIS, ordering, caller, args,
                   input_shape, block_fn, blocks, stages, error, model, shortcutCall>>

\* _residual_block's loop body, line 109: one block function is built and
\* applied to the current tensor.
BlockStep ==
    /\ pc = "stages"
    /\ stage <= Len(args.repetitions)
    /\ rep < args.repetitions[stage]
    /\ IF block_fn.name \notin BlockVariants
       THEN \* the resolved global does not take a block function's arguments
            /\ pc' = "failed"
            /\ error' = "TypeError"
            /\ UNCHANGED <<block, rep, blocks>>
       ELSE LET is_first_layer == IsFirstLayer(stage)
                init_strides == InitStrides(rep, is_first_layer)
                is_first == IsFirstBlockOfFirstLayer(rep, is_first_layer)
                b == ApplyBlock(block_fn.name, block, filters, init_strides,
                                args.is_se, is_first, image_data_format(ordering))
            IN  /\ blocks' = Append(blocks,
                       [stage |-> stage, index |-> rep, filters |-> filters,
                        init_strides |-> init_strides,
                        is_first_block_of_first_layer |-> is_first,
                        input |-> block, ops |-> b.ops, conv1 |-> b.conv1,
                        residual |-> b.residual, se |-> b.se, sc |-> b.sc,
                        out |-> b.out])
                /\ IF b.out = <<>>
                   THEN \* a merge layer could not broadcast its operands
                        /\ pc' = "failed"
                        /\ error' = "ValueError"
                        /\ UNCHANGED <<block, rep>>
                   ELSE /\ block' = b.out
                        /\ rep' = rep + 1
                        /\ UNCHANGED <<pc, error>>
    /\ UNCHANGED <<ROW_AXIS, COL_AXIS, CHANNEL_AXIS, ordering, caller, args,
                   input_shape, block_fn, filters, stage, stageIn, layers, stages,
                   model, shortcutCall>>

\* build, lines 251-254: a _residual_block closure returns and filters doubles.
NextStage ==
    /\ pc = "stages"
    /\ stage <= Len(args.repetitions)
    /\ rep = args.repetitions[stage]
    /\ stages' = Append(stages, [filters |-> filters,
                                 repetitions |-> args.repetitions[stage],
                                 input |-> stageIn, output |-> block])
    /\ filters' = filters * 2
    /\ stage' = stage + 1
    /\ rep' = 0
    /\ stageIn' = block
    /\ UNCHANGED <<ROW_AXIS, COL_AXIS, CHANNEL_AXIS, ordering, pc, caller, args,
                   input_shape, block_fn, block, layers, blocks, error, model,
                   shortcutCall>>

\* build, line 257: the last activation.
LastActivation ==
    /\ pc = "stages"
    /\ stage > Len(args.repetitions)
    /\ block' = _bn_relu(block)
    /\ layers' = layers \o
         <<[op |-> "BatchNormalization", out |-> _bn_relu(block), param |-> CHANNEL_AXIS],
           [op |-> "Activation", out |-> _bn_relu(block), param |-> "relu"]>>
    /\ pc' = "classifier"
    /\ UNCHANGED <<ROW_AXIS, COL_AXIS, CHANNEL_AXIS, ordering, caller, args,
                   input_shape, block_fn, filters, stage, rep, stageIn, blocks,
                   stages, error, model, shortcutCall>>

\* A pool_size that takes the row extent for both sides of the window.
PoolSizeSquare(block_shape, row, col) == <<Dim(block_shape, row), Dim(block_shape, row)>>

\* The pool_size build hands to AveragePooling2D.
PoolSize(block_shape, row, col) == <<Dim(block_shape, row), Dim(block_shape, col)>>

\* build, lines 260-265: the classifier block.
Classifier ==
    /\ pc = "classifier"
    /\ LET fmt == image_data_format(ordering)
           pool_size == PoolSize(block, ROW_AXIS, COL_AXIS)
           pool2 == AveragePooling2D(block, pool_size, fmt)
       IN  IF pool2 = <<>>
           THEN /\ pc' = "failed"
                /\ error' = "ValueError"
                /\ UNCHANGED <<layers, block>>
           ELSE /\ layers' = layers \o
                     <<[op |-> "AveragePooling2D", out |-> pool2, param |-> pool_size],
                       [op |-> "Flatten", out |-> Flatten(pool2), param |-> <<>>],
                       [op |-> "Dense",
                        out |-> Dense(Flatten(pool2), args.num_outputs),
                        param |-> "softmax"]>>
                /\ block' = Dense(Flatten(pool2), args.num_outputs)
                /\ pc' = "model"
                /\ UNCHANGED error
    /\ UNCHANGED <<ROW_AXIS, COL_AXIS, CHANNEL_AXIS, ordering, caller, args,
                   input_shape, block_fn, filters, stage, rep, stageIn, blocks,
                   stages, model, shortcutCall>>

\* build, lines 267-268: the Model is created and returned.
ReturnModel ==
    /\ pc = "model"
    /\ model' = <<[inputs |-> layers[1].out, outputs |-> block]>>
    /\ pc' = "done"
    /\ UNCHANGED <<ROW_AXIS, COL_AXIS, CHANNEL_AXIS, ordering, caller, args,
                   input_shape, block_fn, block, filters, stage, rep, stageIn,
                   layers, blocks, stages, error, shortcutCall>>

\* The call is over (returned or raised): its locals are gone, the module
\* globals stay.
Finish ==
    /\ pc \in {"done", "failed"}
    /\ pc' = "idle"
    /\ caller' = ""
    /\ args' = NoArgs
    /\ input_shape' = <<>>
    /\ block_fn' = <<>>
    /\ block' = <<>>
    /\ filters' = 0
    /\ stage' = 0
    /\ rep' = 0
    /\ stageIn' = <<>>
    /\ layers' = <<>>
    /\ blocks' = <<>>
    /\ stages' = <<>>
    /\ error' = ""
    /\ model' = <<>>
    /\ UNCHANGED <<ROW_AXIS, COL_AXIS, CHANNEL_AXIS, ordering, shortcutCall>>

Next ==
    \/ CallBuild
    \/ resnet_50
    \/ HandleDimOrdering
    \/ CheckRank
    \/ GetBlock
    \/ Stem
    \/ BlockStep
    \/ NextStage
    \/ LastActivation
    \/ Classifier
    \/ ReturnModel

\* One call of build, or of resnet_50, on a freshly imported module.
Spec == Init /\ [][Next]_vars

\* A later call of build, on the module as earlier calls left it.
CallBuildAgain ==
    /\ pc = "idle"
    /\ \E shape \in {<<3, 2, 1>>, <<2, 2>>}, reps \in {<<>>, <<1>>, <<1, 1>>},
       fn \in {[kind |-> "ref", name |-> "basic_block"],
               [kind |-> "str", name |-> "no_such_block"]},
       ord \in {"tf", "th"} :
        Enter("build", [input_shape |-> shape, num_outputs |-> 10, block_fn |-> fn,
                        repetitions |-> reps, is_se |-> FALSE], ord)

NextCalls ==
    \/ CallBuildAgain
    \/ HandleDimOrdering
    \/ CheckRank
    \/ GetBlock
    \/ Stem
    \/ BlockStep
    \/ NextStage
    \/ LastActivation
    \/ Classifier
    \/ ReturnModel
    \/ Finish

\* Calls of build one after another in the same process.
SpecCalls == Init /\ [][NextCalls]_vars

\* ------------------------------------------------- _shortcut on its own
\* A tensor shape with the given extents, laid out for the data format fmt.
Tensor(rows, cols, channels, fmt) ==
    IF fmt = "channels_last" THEN <<0, rows, cols, channels>>
    ELSE <<0, channels, rows, cols>>

\* _handle_dim_ordering() under either ordering; tensors laid out for the
\* ordering left behind are dropped.
SetAxes ==
    /\ pc = "idle"
    /\ \E ord \in {"tf", "th"} :
        /\ ordering' = ord
        /\ ROW_AXIS' = _handle_dim_ordering(ord, axes)[1]
        /\ COL_AXIS' = _handle_dim_ordering(ord, axes)[2]
        /\ CHANNEL_AXIS' = _handle_dim_ordering(ord, axes)[3]
    /\ shortcutCall' = <<>>
    /\ UNCHANGED <<pc, locals>>

\* _shortcut(input, residual) on any pair of shapes within the bounds.
ShortcutCall ==
    /\ pc = "idle"
    /\ ROW_AXIS # 0
    /\ \E r1 \in Dims, c1 \in Dims, r2 \in Dims, c2 \in Dims,
          ch1 \in {64, 128}, ch2 \in {64, 128} :
        LET fmt == image_data_format(ordering)
        IN  shortcutCall' = <<_shortcut(Tensor(r1, c1, ch1, fmt), Tensor(r2, c2, ch2, fmt),
                                        ROW_AXIS, COL_AXIS, CHANNEL_AXIS, fmt)>>
    /\ UNCHANGED <<ROW_AXIS, COL_AXIS, CHANNEL_AXIS, ordering, pc, locals>>

NextShortcut == SetAxes \/ ShortcutCall

SpecShortcut == Init /\ [][NextShortcut]_vars

\* ============================================================= properties
\* Extents of a tensor of the current call, read off its layout.
Rows(t) == IF ordering = "tf" THEN t[2] ELSE t[3]
Cols(t) == IF ordering = "tf" THEN t[3] ELSE t[4]
Channels(t) == IF ordering = "tf" THEN t[4] ELSE t[2]

\* The integer stride ratio int(round(a / b)) exceeds 1 exactly when a / b >= 1.5.
StrideExceedsOne(a, b) == 2 * a >= 3 * b

\* Half of n, rounded up: the output length of a stride-2 "same" convolution.
HalfUp(n) == (n + 1) \div 2

\* The position of every block of the log.
BlockIndex == 1..Len(blocks)

\* The block begins with a convolution: its leading bn->relu is suppressed.
Suppressed(b) == b.ops[1] = "Conv2D"

C2_SumOperandsAgree ==
    pc = "done" =>
        \A k \in BlockIndex :
            /\ blocks[k].sc # <<>>
            /\ blocks[k].sc[1].shortcut = blocks[k].sc[1].residual

\* C3: at the output of every stage after the first the rows and cols are
\* half (rounded up) of those at the stage's input and the stage's filter
\* count is double that of the preceding stage; the first stage keeps the
\* stem's resolution and uses 64 filters.  The halving is stated for the
\* stages that have at least one block.
C3_StagesHalveAndDouble ==
    pc = "done" =>
        \A k \in 1..Len(stages) :
            IF k = 1
            THEN /\ stages[k].filters = 64
                 /\ Rows(stages[k].output) = Rows(layers[4].out)
                 /\ Cols(stages[k].output) = Cols(layers[4].out)
            ELSE /\ stages[k].filters = 2 * stages[k - 1].filters
                 /\ stages[k].repetitions >= 1 =>
                      /\ Rows(stages[k].output) = HalfUp(Rows(stages[k].input))
                      /\ Cols(stages[k].output) = HalfUp(Cols(stages[k].input))

\* C4: a call of build whose input_shape is not of length 3 fails with the
\* shape-rank error whatever the other arguments are, and no layer is created
\* and no block function resolved before it does.
C4_RankErrorFirst ==
    (pc # "idle" /\ Len(args.input_shape) # 3) =>
        /\ pc \in {"called", "rank"} \/ (pc = "failed" /\ error = "ShapeRank")
        /\ layers = <<>>
        /\ blocks = <<>>
        /\ block_fn = <<>>
        /\ model = <<>>

\* C4 witness: the shape-rank error on a call that also names no known block.
C4_Witness ==
    /\ pc = "failed"
    /\ error = "ShapeRank"
    /\ Len(args.input_shape) = 2
    /\ args.block_fn = [kind |-> "str", name |-> "no_such_block"]
    /\ layers = <<>>

\* C5: a block variant given as a string that names none of basic_block,
\* small_basic_block, bottleneck raises the invalid-identifier error, and no
\* graph is built.
C5_UnknownNameRejected ==
    (/\ pc \notin {"idle", "called", "rank", "get_block"}
     /\ Len(args.input_shape) = 3
     /\ args.block_fn.kind = "str"
     /\ args.block_fn.name \notin BlockVariants) =>
        /\ pc = "failed"
        /\ error = "InvalidIdentifier"
        /\ layers = <<>>

\* C6: resnet_50((3,224,224), 1000) builds 16 bottleneck blocks in stages of
\* 3, 4, 6, 3 with filter widths 64, 128, 256, 512; every block outputs 4
\* times its stage's width; the final dense layer has 1000 units.
C6_ResNet50 ==
    (caller = "resnet_50" /\ pc = "done") =>
        /\ [k \in 1..Len(stages) |-> stages[k].filters] = <<64, 128, 256, 512>>
        /\ [k \in 1..Len(stages) |-> Cardinality({j \in BlockIndex : blocks[j].stage = k})]
             = <<3, 4, 6, 3>>
        /\ Len(blocks) = 16
        /\ \A j \in BlockIndex :
            /\ blocks[j].filters = stages[blocks[j].stage].filters
            /\ Channels(blocks[j].conv1) = blocks[j].filters
            /\ Channels(blocks[j].out) = 4 * blocks[j].filters
        /\ [k \in 1..Len(stages) |-> Channels(stages[k].output)]
             = <<256, 512, 1024, 2048>>
        /\ layers[Len(layers)].op = "Dense"
        /\ layers[Len(layers)].out = <<0, 1000>>
        /\ model[1].outputs = <<0, 1000>>

\* C6 witness: the finished resnet_50 graph under the "th" ordering.
C6_Witness ==
    /\ caller = "resnet_50"
    /\ pc = "done"
    /\ ordering = "th"
    /\ args.input_shape = <<3, 224, 224>>
    /\ args.num_outputs = 1000
    /\ Len(blocks) = 16

\* The tensor the classifier starts from: the last stage's output, or the
\* stem's when there is no stage.
LastStageOutput == IF stages = <<>> THEN layers[4].out ELSE stages[Len(stages)].output

\* C7: after the last stage build creates, once each and in this order,
\* bn, relu, an average pooling whose window is the current rows x cols, a
\* flatten and a softmax dense layer of num_outputs units; the pooled tensor
\* is 1x1 and the flattened vector has as many entries as the last stage has
\* output channels.
C7_ClassifierTail ==
    pc = "done" =>
        /\ [k \in 1..(Len(layers) - 4) |-> layers[k + 4].op]
             = <<"BatchNormalization", "Activation", "AveragePooling2D", "Flatten", "Dense">>
        /\ layers[5].out = LastStageOutput
        /\ layers[7].param = <<Rows(LastStageOutput), Cols(LastStageOutput)>>
        /\ Rows(layers[7].out) = 1
        /\ Cols(layers[7].out) = 1
        /\ layers[8].out = <<0, Channels(LastStageOutput)>>
        /\ layers[9].out = <<0, args.num_outputs>>
        /\ layers[9].param = "softmax"
        /\ model[1].outputs = layers[9].out

\* C7 witness: a finished two-stage network whose last tensor is not square.
C7_Witness ==
    /\ pc = "done"
    /\ Len(stages) = 2
    /\ Len(blocks) >= 2
    /\ Rows(LastStageOutput) < Cols(LastStageOutput)

\* C8: squeeze_excite_block returns a tensor of the shape of its input: the
\* descriptor is squeezed to 1x1xC, compressed to C // 16 >= 1 channels and
\* expanded back to C channels before the multiplication.
C8_AttentionKeepsShape ==
    \A k \in BlockIndex :
        blocks[k].se # <<>> =>
            LET a == blocks[k].se[1]
                C == Channels(a.input)
            IN  /\ a.out = a.input
                /\ Rows(a.squeezed) = 1 /\ Cols(a.squeezed) = 1
                /\ Channels(a.squeezed) = C
                /\ Channels(a.compressed) = C \div 16
                /\ C \div 16 >= 1
                /\ Channels(a.expanded) = C
                /\ Rows(a.expanded) = 1 /\ Cols(a.expanded) = 1

\* C9 as stated: a call of build writes no state shared across calls.
C9_NoSharedWrites == [][axes' = axes]_vars

\* C9 amended: build's first step overwrites the module globals ROW_AXIS,
\* COL_AXIS and CHANNEL_AXIS, also in a call that then fails; from that step on
\* they address the rows, cols and channels of a tensor in the data format of
\* this call, whatever earlier calls left in them.
C9_AxesFollowCall ==
    pc \notin {"idle", "called"} =>
        LET t == Tensor(11, 12, 13, image_data_format(ordering))
        IN  /\ Dim(t, ROW_AXIS) = 11
            /\ Dim(t, COL_AXIS) = 12
            /\ Dim(t, CHANNEL_AXIS) = 13

\* C9 witness: a call that failed with the shape-rank error has set the globals.
C9_Witness ==
    /\ pc = "failed"
    /\ error = "ShapeRank"
    /\ ordering = "th"
    /\ axes = <<2, 3, 1>>

\* C10 as stated: exactly one block of a finished network, the first block of
\* the first stage, lacks the leading bn->relu; stride (2,2) is applied at
\* exactly the first block of every later stage.
C10_ExactlyOneSuppressed ==
    pc = "done" =>
        /\ Cardinality({k \in BlockIndex : Suppressed(blocks[k])}) = 1
        /\ \A k \in BlockIndex :
            /\ Suppressed(blocks[k]) <=> (blocks[k].stage = 1 /\ blocks[k].index = 0)
            /\ blocks[k].init_strides =
                 IF blocks[k].stage > 1 /\ blocks[k].index = 0 THEN <<2, 2>> ELSE <<1, 1>>

\* C10 amended: a block lacks the leading bn->relu if and only if it is the
\* first block of the first stage, so exactly one block does when the first
\* repetition count is at least 1 and none does when the list is empty or
\* starts with 0; every other block begins bn, relu, conv.  Stride (2,2) is
\* applied at exactly the first block of every later stage, (1,1) elsewhere.
C10_SuppressedOnlyFirstOfFirst ==
    /\ \A k \in BlockIndex :
        /\ Suppressed(blocks[k]) <=> (blocks[k].stage = 1 /\ blocks[k].index = 0)
        /\ ~Suppressed(blocks[k]) =>
             /\ blocks[k].ops[1] = "BatchNormalization"
             /\ blocks[k].ops[2] = "Activation"
             /\ blocks[k].ops[3] = "Conv2D"
        /\ blocks[k].init_strides =
             IF blocks[k].stage > 1 /\ blocks[k].index = 0 THEN <<2, 2>> ELSE <<1, 1>>
        /\ Rows(blocks[k].conv1) =
             IF blocks[k].stage > 1 /\ blocks[k].index = 0
             THEN HalfUp(Rows(blocks[k].input)) ELSE Rows(blocks[k].input)
    /\ pc = "done" =>
         Cardinality({k \in BlockIndex : Suppressed(blocks[k])}) =
            IF args.repetitions # <<>> /\ args.repetitions[1] >= 1 THEN 1 ELSE 0

\* C10 witness: a finished network whose first stage is empty: it has blocks,
\* and every one of them begins with bn->relu.
C10_Witness ==
    /\ pc = "done"
    /\ Len(args.repetitions) = 2
    /\ args.repetitions[1] = 0
    /\ Len(blocks) = 2
    /\ \A k \in BlockIndex : ~Suppressed(blocks[k])

====
